---------------------------- MODULE Spec2Model ----------------------------
(***************************************************************************)
(* Command dispatch and in-flight task tracking of the Telegram bot's      *)
(* BasicCommandHandler (src/platforms/telegram/commands/basic_commands.py) *)
(* together with the environment name of core/config.py.                   *)
(*                                                                         *)
(* A character is its Unicode code point and a text is a sequence of       *)
(* characters, so that the pattern matching, str.split, str.upper,         *)
(* strptime, the f-strings and the formatting of the latency are computed  *)
(* character by character, for every character a Python str can hold.      *)
(*                                                                         *)
(* Scheduling is asyncio's: one thread, a coroutine runs without           *)
(* interruption from one await to the next.  Every action below is one     *)
(* such uninterrupted run.  CancelledError is a BaseException (Python 3.8  *)
(* and later), so "except Exception" does not catch it.                    *)
(***************************************************************************)
EXTENDS Naturals, Sequences, FiniteSets

(***************************************************************************)
(* Bounds of the model.                                                    *)
(***************************************************************************)
\* number of inbound events the transport delivers in one run
MaxEvents == 2
\* number of times the clock is seen to have advanced
MaxTicks == 1
\* value of int(time.time()) in the initial state
FirstSecond == 9
\* microseconds by which the clock advances in one tick
TickMicros == 1012346

(***************************************************************************)
(* Characters and text helpers.                                            *)
(***************************************************************************)
\* the first code point of each run of ten decimal digits (Unicode
\* category Nd): the characters \d matches and int() converts
DigitStarts ==
    {48, 1632, 1776, 1984, 2406, 2534, 2662, 2790, 2918, 3046, 3174, 3302,
     3430, 3558, 3664, 3792, 3872, 4160, 4240, 6112, 6160, 6470, 6608,
     6784, 6800, 6992, 7088, 7232, 7248, 42528, 43216, 43264, 43472,
     43504, 43600, 44016, 65296, 66720, 68912, 69734, 69872, 69942, 70096,
     70384, 70736, 70864, 71248, 71360, 71472, 71904, 72016, 72784, 73040,
     73120, 92768, 92864, 93008, 120782, 120792, 120802, 120812, 120822,
     123200, 123632, 125264, 130032}

\* \d on a str pattern
IsDigit(c) == \E z \in DigitStarts : c \in z..(z + 9)

\* int(c) for a decimal digit c
DigitVal(c) == c - (CHOOSE z \in DigitStarts : c \in z..(z + 9))

\* the characters for which str.isspace() holds: the separators of
\* str.split() and the characters \s matches on a str pattern
SpaceChars ==
    {9, 10, 11, 12, 13, 28, 29, 30, 31, 32, 133, 160, 5760, 8192, 8193,
     8194, 8195, 8196, 8197, 8198, 8199, 8200, 8201, 8202, 8232, 8233,
     8239, 8287, 12288}

IsSpace(c) == c \in SpaceChars

\* the characters whose upper case is one other character, as runs
\* <<first, last, step, upper case of first>>: the characters first,
\* first + step, ..., last; the upper case of c is as far from the upper
\* case of first as c is from first
UpperRuns ==
    { <<97, 122, 1, 65>>, <<181, 181, 1, 924>>, <<224, 246, 1, 192>>,
      <<248, 254, 1, 216>>, <<255, 255, 1, 376>>, <<257, 303, 2, 256>>,
      <<305, 305, 1, 73>>, <<307, 311, 2, 306>>, <<314, 328, 2, 313>>,
      <<331, 375, 2, 330>>, <<378, 382, 2, 377>>, <<383, 383, 1, 83>>,
      <<384, 384, 1, 579>>, <<387, 389, 2, 386>>, <<392, 392, 1, 391>>,
      <<396, 396, 1, 395>>, <<402, 402, 1, 401>>, <<405, 405, 1, 502>>,
      <<409, 409, 1, 408>>, <<410, 410, 1, 573>>, <<414, 414, 1, 544>>,
      <<417, 421, 2, 416>>, <<424, 424, 1, 423>>, <<429, 429, 1, 428>>,
      <<432, 432, 1, 431>>, <<436, 438, 2, 435>>, <<441, 441, 1, 440>>,
      <<445, 445, 1, 444>>, <<447, 447, 1, 503>>, <<453, 453, 1, 452>>,
      <<454, 454, 1, 452>>, <<456, 456, 1, 455>>, <<457, 457, 1, 455>>,
      <<459, 459, 1, 458>>, <<460, 460, 1, 458>>, <<462, 476, 2, 461>>,
      <<477, 477, 1, 398>>, <<479, 495, 2, 478>>, <<498, 498, 1, 497>>,
      <<499, 499, 1, 497>>, <<501, 501, 1, 500>>, <<505, 543, 2, 504>>,
      <<547, 563, 2, 546>>, <<572, 572, 1, 571>>, <<575, 576, 1, 11390>>,
      <<578, 578, 1, 577>>, <<583, 591, 2, 582>>, <<592, 592, 1, 11375>>,
      <<593, 593, 1, 11373>>, <<594, 594, 1, 11376>>, <<595, 595, 1,
      385>>, <<596, 596, 1, 390>>, <<598, 599, 1, 393>>, <<601, 601, 1,
      399>>, <<603, 603, 1, 400>>, <<604, 604, 1, 42923>>, <<608, 608, 1,
      403>>, <<609, 609, 1, 42924>>, <<611, 611, 1, 404>>, <<613, 613, 1,
      42893>>, <<614, 614, 1, 42922>>, <<616, 616, 1, 407>>, <<617, 617,
      1, 406>>, <<618, 618, 1, 42926>>, <<619, 619, 1, 11362>>, <<620,
      620, 1, 42925>>, <<623, 623, 1, 412>>, <<625, 625, 1, 11374>>,
      <<626, 626, 1, 413>>, <<629, 629, 1, 415>>, <<637, 637, 1, 11364>>,
      <<640, 640, 1, 422>>, <<642, 642, 1, 42949>>, <<643, 643, 1, 425>>,
      <<647, 647, 1, 42929>>, <<648, 648, 1, 430>>, <<649, 649, 1, 580>>,
      <<650, 651, 1, 433>>, <<652, 652, 1, 581>>, <<658, 658, 1, 439>>,
      <<669, 669, 1, 42930>>, <<670, 670, 1, 42928>>, <<837, 837, 1,
      921>>, <<881, 883, 2, 880>>, <<887, 887, 1, 886>>, <<891, 893, 1,
      1021>>, <<940, 940, 1, 902>>, <<941, 943, 1, 904>>, <<945, 961, 1,
      913>>, <<962, 962, 1, 931>>, <<963, 971, 1, 931>>, <<972, 972, 1,
      908>>, <<973, 974, 1, 910>>, <<976, 976, 1, 914>>, <<977, 977, 1,
      920>>, <<981, 981, 1, 934>>, <<982, 982, 1, 928>>, <<983, 983, 1,
      975>>, <<985, 1007, 2, 984>>, <<1008, 1008, 1, 922>>, <<1009, 1009,
      1, 929>>, <<1010, 1010, 1, 1017>>, <<1011, 1011, 1, 895>>, <<1013,
      1013, 1, 917>>, <<1016, 1016, 1, 1015>>, <<1019, 1019, 1, 1018>>,
      <<1072, 1103, 1, 1040>>, <<1104, 1119, 1, 1024>>, <<1121, 1153, 2,
      1120>>, <<1163, 1215, 2, 1162>>, <<1218, 1230, 2, 1217>>, <<1231,
      1231, 1, 1216>>, <<1233, 1327, 2, 1232>>, <<1377, 1414, 1, 1329>>,
      <<4304, 4346, 1, 7312>>, <<4349, 4351, 1, 7357>>, <<5112, 5117, 1,
      5104>>, <<7296, 7296, 1, 1042>>, <<7297, 7297, 1, 1044>>, <<7298,
      7298, 1, 1054>>, <<7299, 7300, 1, 1057>>, <<7301, 7301, 1, 1058>>,
      <<7302, 7302, 1, 1066>>, <<7303, 7303, 1, 1122>>, <<7304, 7304, 1,
      42570>>, <<7545, 7545, 1, 42877>>, <<7549, 7549, 1, 11363>>, <<7566,
      7566, 1, 42950>>, <<7681, 7829, 2, 7680>>, <<7835, 7835, 1, 7776>>,
      <<7841, 7935, 2, 7840>>, <<7936, 7943, 1, 7944>>, <<7952, 7957, 1,
      7960>>, <<7968, 7975, 1, 7976>>, <<7984, 7991, 1, 7992>>, <<8000,
      8005, 1, 8008>>, <<8017, 8023, 2, 8025>>, <<8032, 8039, 1, 8040>>,
      <<8048, 8049, 1, 8122>>, <<8050, 8053, 1, 8136>>, <<8054, 8055, 1,
      8154>>, <<8056, 8057, 1, 8184>>, <<8058, 8059, 1, 8170>>, <<8060,
      8061, 1, 8186>>, <<8112, 8113, 1, 8120>>, <<8126, 8126, 1, 921>>,
      <<8144, 8145, 1, 8152>>, <<8160, 8161, 1, 8168>>, <<8165, 8165, 1,
      8172>>, <<8526, 8526, 1, 8498>>, <<8560, 8575, 1, 8544>>, <<8580,
      8580, 1, 8579>>, <<9424, 9449, 1, 9398>>, <<11312, 11359, 1,
      11264>>, <<11361, 11361, 1, 11360>>, <<11365, 11365, 1, 570>>,
      <<11366, 11366, 1, 574>>, <<11368, 11372, 2, 11367>>, <<11379,
      11379, 1, 11378>>, <<11382, 11382, 1, 11381>>, <<11393, 11491, 2,
      11392>>, <<11500, 11502, 2, 11499>>, <<11507, 11507, 1, 11506>>,
      <<11520, 11557, 1, 4256>>, <<11559, 11559, 1, 4295>>, <<11565,
      11565, 1, 4301>>, <<42561, 42605, 2, 42560>>, <<42625, 42651, 2,
      42624>>, <<42787, 42799, 2, 42786>>, <<42803, 42863, 2, 42802>>,
      <<42874, 42876, 2, 42873>>, <<42879, 42887, 2, 42878>>, <<42892,
      42892, 1, 42891>>, <<42897, 42899, 2, 42896>>, <<42900, 42900, 1,
      42948>>, <<42903, 42921, 2, 42902>>, <<42933, 42947, 2, 42932>>,
      <<42952, 42954, 2, 42951>>, <<42961, 42961, 1, 42960>>, <<42967,
      42969, 2, 42966>>, <<42998, 42998, 1, 42997>>, <<43859, 43859, 1,
      42931>>, <<43888, 43967, 1, 5024>>, <<65345, 65370, 1, 65313>>,
      <<66600, 66639, 1, 66560>>, <<66776, 66811, 1, 66736>>, <<66967,
      67003, 2, 66928>>, <<66968, 66977, 1, 66929>>, <<66980, 66993, 1,
      66941>>, <<66996, 67001, 1, 66957>>, <<67004, 67004, 1, 66965>>,
      <<68800, 68850, 1, 68736>>, <<71872, 71903, 1, 71840>>, <<93792,
      93823, 1, 93760>>, <<125218, 125251, 1, 125184>> }

\* the characters whose upper case is more than one character
UpperSpecial ==
    { <<223, <<83, 83>>>>, <<329, <<700, 78>>>>, <<496, <<74, 780>>>>,
      <<912, <<921, 776, 769>>>>, <<944, <<933, 776, 769>>>>, <<1415,
      <<1333, 1362>>>>, <<7830, <<72, 817>>>>, <<7831, <<84, 776>>>>,
      <<7832, <<87, 778>>>>, <<7833, <<89, 778>>>>, <<7834, <<65, 702>>>>,
      <<8016, <<933, 787>>>>, <<8018, <<933, 787, 768>>>>, <<8020, <<933,
      787, 769>>>>, <<8022, <<933, 787, 834>>>>, <<8064, <<7944, 921>>>>,
      <<8065, <<7945, 921>>>>, <<8066, <<7946, 921>>>>, <<8067, <<7947,
      921>>>>, <<8068, <<7948, 921>>>>, <<8069, <<7949, 921>>>>, <<8070,
      <<7950, 921>>>>, <<8071, <<7951, 921>>>>, <<8072, <<7944, 921>>>>,
      <<8073, <<7945, 921>>>>, <<8074, <<7946, 921>>>>, <<8075, <<7947,
      921>>>>, <<8076, <<7948, 921>>>>, <<8077, <<7949, 921>>>>, <<8078,
      <<7950, 921>>>>, <<8079, <<7951, 921>>>>, <<8080, <<7976, 921>>>>,
      <<8081, <<7977, 921>>>>, <<8082, <<7978, 921>>>>, <<8083, <<7979,
      921>>>>, <<8084, <<7980, 921>>>>, <<8085, <<7981, 921>>>>, <<8086,
      <<7982, 921>>>>, <<8087, <<7983, 921>>>>, <<8088, <<7976, 921>>>>,
      <<8089, <<7977, 921>>>>, <<8090, <<7978, 921>>>>, <<8091, <<7979,
      921>>>>, <<8092, <<7980, 921>>>>, <<8093, <<7981, 921>>>>, <<8094,
      <<7982, 921>>>>, <<8095, <<7983, 921>>>>, <<8096, <<8040, 921>>>>,
      <<8097, <<8041, 921>>>>, <<8098, <<8042, 921>>>>, <<8099, <<8043,
      921>>>>, <<8100, <<8044, 921>>>>, <<8101, <<8045, 921>>>>, <<8102,
      <<8046, 921>>>>, <<8103, <<8047, 921>>>>, <<8104, <<8040, 921>>>>,
      <<8105, <<8041, 921>>>>, <<8106, <<8042, 921>>>>, <<8107, <<8043,
      921>>>>, <<8108, <<8044, 921>>>>, <<8109, <<8045, 921>>>>, <<8110,
      <<8046, 921>>>>, <<8111, <<8047, 921>>>>, <<8114, <<8122, 921>>>>,
      <<8115, <<913, 921>>>>, <<8116, <<902, 921>>>>, <<8118, <<913,
      834>>>>, <<8119, <<913, 834, 921>>>>, <<8124, <<913, 921>>>>,
      <<8130, <<8138, 921>>>>, <<8131, <<919, 921>>>>, <<8132, <<905,
      921>>>>, <<8134, <<919, 834>>>>, <<8135, <<919, 834, 921>>>>,
      <<8140, <<919, 921>>>>, <<8146, <<921, 776, 768>>>>, <<8147, <<921,
      776, 769>>>>, <<8150, <<921, 834>>>>, <<8151, <<921, 776, 834>>>>,
      <<8162, <<933, 776, 768>>>>, <<8163, <<933, 776, 769>>>>, <<8164,
      <<929, 787>>>>, <<8166, <<933, 834>>>>, <<8167, <<933, 776, 834>>>>,
      <<8178, <<8186, 921>>>>, <<8179, <<937, 921>>>>, <<8180, <<911,
      921>>>>, <<8182, <<937, 834>>>>, <<8183, <<937, 834, 921>>>>,
      <<8188, <<937, 921>>>>, <<64256, <<70, 70>>>>, <<64257, <<70,
      73>>>>, <<64258, <<70, 76>>>>, <<64259, <<70, 70, 73>>>>, <<64260,
      <<70, 70, 76>>>>, <<64261, <<83, 84>>>>, <<64262, <<83, 84>>>>,
      <<64275, <<1348, 1350>>>>, <<64276, <<1348, 1333>>>>, <<64277,
      <<1348, 1339>>>>, <<64278, <<1358, 1350>>>>, <<64279, <<1348,
      1341>>>> }

\* str.upper() on one character: a text of one to three characters
UpperChar(c) ==
    IF \E p \in UpperSpecial : p[1] = c
    THEN (CHOOSE p \in UpperSpecial : p[1] = c)[2]
    ELSE IF \E r \in UpperRuns : c \in r[1]..r[2] /\ (c - r[1]) % r[3] = 0
    THEN LET r == CHOOSE r \in UpperRuns :
                      c \in r[1]..r[2] /\ (c - r[1]) % r[3] = 0
         IN <<r[4] + (c - r[1])>>
    ELSE <<c>>

RECURSIVE UpperFrom(_, _)
UpperFrom(s, i) ==
    IF i > Len(s) THEN <<>> ELSE UpperChar(s[i]) \o UpperFrom(s, i + 1)

\* str.upper()
Upper(s) == UpperFrom(s, 1)

\* str(n) for a natural number n
RECURSIVE Dec(_)
Dec(n) == IF n < 10 THEN <<48 + n>>
          ELSE Dec(n \div 10) \o <<48 + (n % 10)>>

\* sub in s   (substring test)
Contains(s, sub) ==
    \E i \in 0..Len(s) :
        /\ i + Len(sub) <= Len(s)
        /\ \A j \in 1..Len(sub) : s[i + j] = sub[j]

\* s.startswith(p)
StartsWith(s, p) ==
    /\ Len(p) <= Len(s)
    /\ \A j \in 1..Len(p) : s[j] = p[j]

\* str.split(): the maximal runs of non-space characters, in order
RECURSIVE SplitFrom(_, _, _)
SplitFrom(s, i, cur) ==
    IF i > Len(s)
    THEN IF cur = <<>> THEN <<>> ELSE <<cur>>
    ELSE IF IsSpace(s[i])
         THEN (IF cur = <<>> THEN <<>> ELSE <<cur>>) \o SplitFrom(s, i + 1, <<>>)
         ELSE SplitFrom(s, i + 1, Append(cur, s[i]))

Split(s) == SplitFrom(s, 1, <<>>)

\* str.split(sep) for a one-character sep: the fields between the
\* separators, empty fields included
RECURSIVE SplitOnFrom(_, _, _, _)
SplitOnFrom(s, sep, i, cur) ==
    IF i > Len(s) THEN <<cur>>
    ELSE IF s[i] = sep
         THEN <<cur>> \o SplitOnFrom(s, sep, i + 1, <<>>)
         ELSE SplitOnFrom(s, sep, i + 1, Append(cur, s[i]))

SplitOn(s, sep) == SplitOnFrom(s, sep, 1, <<>>)

\* str.strip(chars): s without its leading and trailing characters that
\* are in chars; str.strip() is Strip(s, SpaceChars)
Strip(s, chars) ==
    LET keep == {i \in 1..Len(s) : s[i] \notin chars}
    IN IF keep = {} THEN <<>>
       ELSE LET lo == CHOOSE i \in keep : \A j \in keep : i <= j
                hi == CHOOSE i \in keep : \A j \in keep : j <= i
            IN [k \in 1..(hi - lo + 1) |-> s[lo + k - 1]]

(***************************************************************************)
(* The patterns of register_handlers.  Telethon compiles each pattern and  *)
(* applies re.match to the message text.  Five patterns are ^literal$; the *)
(* sixth is ^/unwire(?:\s+\d{4}-\d{2}-\d{2})?$.                            *)
(***************************************************************************)
\* the literal of ^/ping$
PingLit == <<47, 112, 105, 110, 103>>

\* the literal of ^/hi_dog$
HiDogLit == <<47, 104, 105, 95, 100, 111, 103>>

\* the literal of ^/test$
TestLit == <<47, 116, 101, 115, 116>>

\* the literal of ^/env$
EnvLit == <<47, 101, 110, 118>>

\* the literal of ^/\.env$ (the dot is escaped: a literal dot)
DotEnvLit == <<47, 46, 101, 110, 118>>

\* the literal head of the /unwire pattern
UnwireLit == <<47, 117, 110, 119, 105, 114, 101>>

\* $ at position i of s: the end of s, or just before a final newline
AtEnd(s, i) == i = Len(s) + 1 \/ (i = Len(s) /\ s[i] = 10)

\* \d{4}-\d{2}-\d{2} matches s[i..i+9]
DateShapeAt(s, i) ==
    /\ i + 9 <= Len(s)
    /\ \A k \in {0, 1, 2, 3, 5, 6, 8, 9} : IsDigit(s[i + k])
    /\ s[i + 4] = 45
    /\ s[i + 7] = 45

\* re.match(^lit, s): the pattern without its closing $
MatchLiteralPrefix(lit, s) == StartsWith(s, lit)

\* re.match(^lit$, s)
MatchLiteral(lit, s) == StartsWith(s, lit) /\ AtEnd(s, Len(lit) + 1)

\* re.match(^lit(?:\s+\d{4}-\d{2}-\d{2})?$, s)
MatchWithDate(lit, s) ==
    /\ StartsWith(s, lit)
    /\ \/ AtEnd(s, Len(lit) + 1)
       \/ \E k \in 1..Len(s) :
            /\ Len(lit) + k <= Len(s)
            /\ \A j \in 1..k : IsSpace(s[Len(lit) + j])
            /\ DateShapeAt(s, Len(lit) + k + 1)
            /\ AtEnd(s, Len(lit) + k + 11)

\* the (handler, pattern) pairs in the order register_handlers adds them
Registry ==
    << [handler |-> "ping_handler",   lit |-> PingLit,   date |-> FALSE],
       [handler |-> "hi_dog_handler", lit |-> HiDogLit,  date |-> FALSE],
       [handler |-> "test_handler",   lit |-> TestLit,   date |-> FALSE],
       [handler |-> "env_handler",    lit |-> EnvLit,    date |-> FALSE],
       [handler |-> "dotenv_handler", lit |-> DotEnvLit, date |-> FALSE],
       [handler |-> "unwire_handler", lit |-> UnwireLit, date |-> TRUE] >>

\* the registry with the dot of /.env optional (^/\.?env$)
MatchesOptionalDot(r, text) ==
    IF r.date THEN MatchWithDate(r.lit, text)
    ELSE \/ MatchLiteral(r.lit, text)
         \/ r.lit = DotEnvLit /\ MatchLiteral(EnvLit, text)

\* whether registry entry r matches the text
Matches(r, text) ==
    IF r.date THEN MatchWithDate(r.lit, text) ELSE MatchLiteral(r.lit, text)

\* the indices of the registry entries whose pattern matches the text
Matching(text) == {i \in 1..Len(Registry) : Matches(Registry[i], text)}

(***************************************************************************)
(* datetime.strptime(date_str, '%Y-%m-%d').  The format is compiled to the *)
(* regular expression                                                      *)
(*   (\d\d\d\d)-(1[0-2]|0[1-9]|[1-9])-(3[01]|[12]\d|0[1-9]|[1-9]| [1-9])   *)
(* which must match at the start of date_str and consume all of it; the    *)
(* three numbers must then name a day that exists.  Otherwise ValueError.  *)
(***************************************************************************)
\* the character at position i of s, or 0 (NUL, in none of the classes
\* below) past the end
At(s, i) == IF i \in 1..Len(s) THEN s[i] ELSE 0

\* c is in the class [lo-hi] of ASCII digits lo..hi
InClass(c, lo, hi) == c \in (48 + lo)..(48 + hi)

\* the number of characters the month alternatives match at position i
\* (0: none matches); the month must be followed by "-"
MonthLen(s, i) ==
    IF /\ \/ At(s, i) = 49 /\ InClass(At(s, i + 1), 0, 2)
          \/ At(s, i) = 48 /\ InClass(At(s, i + 1), 1, 9)
       /\ At(s, i + 2) = 45
    THEN 2
    ELSE IF InClass(At(s, i), 1, 9) /\ At(s, i + 1) = 45 THEN 1
    ELSE 0

\* the number of characters the day alternatives match at position i,
\* the first alternative that matches being taken (0: none matches)
DayLen(s, i) ==
    IF At(s, i) = 51 /\ InClass(At(s, i + 1), 0, 1) THEN 2
    ELSE IF InClass(At(s, i), 1, 2) /\ IsDigit(At(s, i + 1)) THEN 2
    ELSE IF At(s, i) = 48 /\ InClass(At(s, i + 1), 1, 9) THEN 2
    ELSE IF InClass(At(s, i), 1, 9) THEN 1
    ELSE IF At(s, i) = 32 /\ InClass(At(s, i + 1), 1, 9) THEN 2
    ELSE 0

\* int() of the n characters of s from position i (digits, or a space
\* followed by a digit)
RECURSIVE IntAt(_, _, _)
IntAt(s, i, n) ==
    IF n = 0 THEN 0
    ELSE IntAt(s, i, n - 1) * 10
            + (IF s[i + n - 1] = 32 THEN 0 ELSE DigitVal(s[i + n - 1]))

IsLeap(y) == (y % 4 = 0 /\ y % 100 # 0) \/ y % 400 = 0

DaysInMonth(y, m) ==
    IF m = 2 THEN (IF IsLeap(y) THEN 29 ELSE 28)
    ELSE IF m \in {4, 6, 9, 11} THEN 30 ELSE 31

\* a validation that looks at the shape of the date only
StrptimeShapeOnly(d) == Len(d) = 10 /\ DateShapeAt(d, 1)

\* TRUE when strptime returns, FALSE when it raises ValueError
StrptimeOk(d) ==
    /\ \A k \in 1..4 : IsDigit(At(d, k))
    /\ At(d, 5) = 45
    /\ MonthLen(d, 6) > 0
    /\ LET m == MonthLen(d, 6)
           n == DayLen(d, 7 + m)
       IN /\ n > 0
          /\ Len(d) = 6 + m + n
          /\ IntAt(d, 1, 4) >= 1
          /\ IntAt(d, 7 + m, n)
                \in 1..DaysInMonth(IntAt(d, 1, 4), IntAt(d, 6, m))

(***************************************************************************)
(* Task ids: f"{prefix}_{event.id}_{int(time.time())}".                    *)
(***************************************************************************)
PingPrefix == <<112, 105, 110, 103>>

HiDogPrefix == <<104, 105, 95, 100, 111, 103>>

TestPrefix == <<116, 101, 115, 116>>

EnvPrefix == <<101, 110, 118>>

UnwirePrefix == <<117, 110, 119, 105, 114, 101>>

TaskId(prefix, id, ts) == prefix \o <<95>> \o Dec(id) \o <<95>> \o Dec(ts)

(***************************************************************************)
(* The ENVIRONMENT variable of the process and its two readers.  A value   *)
(* that may be absent is a record: isset says whether it is there.         *)
(***************************************************************************)
\* the default of Config.__init__
ConfigDefault == <<116, 101, 115, 116>>

\* the default of _process_env
HandlerDefault == <<78, 111, 116, 32, 115, 101, 116>>

EnvironmentLabel == <<69, 110, 118, 105, 114, 111, 110, 109, 101, 110,
                      116, 58, 32>>

ValueTest == <<116, 101, 115, 116>>

Unset == [isset |-> FALSE, value |-> <<>>]

SetTo(v) == [isset |-> TRUE, value |-> v]

\* os.getenv(name, default)
Getenv(env, default) == IF env.isset THEN env.value ELSE default

\* Config.__init__: self.environment
ConfigEnvironment(env) == Getenv(env, ConfigDefault)

\* the text _process_env replies with
EnvResponse(env) ==
    EnvironmentLabel \o Upper(Getenv(env, HandlerDefault)) \o <<10, 10>>

\* the values of ENVIRONMENT the model starts from
Environs == {Unset, SetTo(ValueTest)}

(***************************************************************************)
(* Reply texts.                                                            *)
(***************************************************************************)
PingingText == <<80, 105, 110, 103, 105, 110, 103, 46, 46, 46>>

TestText ==
    <<66, 111, 116, 32, 105, 115, 32, 114, 117, 110, 110, 105, 110, 103,
      33, 32, 84, 104, 105, 115, 32, 105, 115, 32, 97, 32, 116, 101, 115,
      116, 32, 114, 101, 115, 112, 111, 110, 115, 101, 46>>

\* the head of the /hi_dog reply, "Woof! Hello there! " followed by the
\* dog face U+1F436 and a newline
WoofHead ==
    <<87, 111, 111, 102, 33, 32, 72, 101, 108, 108, 111, 32, 116, 104,
      101, 114, 101, 33, 32, 128054, 10>>

\* the eight drawings of dog_arts, each as written between its triple
\* quotes
DogArts ==
    << <<10, 32, 32, 32, 32, 32, 32, 32, 32, 32, 32, 32, 32, 32, 32, 32,
         32, 47, 92, 32, 32, 47, 32, 32, 32, 32, 32, 32, 32, 32, 32, 32,
         32, 32, 61, 40, 32, 180, 32, 8226, 8288, 969, 8226, 32, 8288, 41,
         61, 10, 32, 32, 32, 32, 32, 32, 32, 32, 32, 32, 32, 32, 47, 32,
         865, 32, 32, 32, 32, 32, 32, 65077, 32, 32, 32, 32, 32, 32, 32,
         32, 32, 32, 32, 32, 40, 8288, 20154, 95, 95, 95, 95, 95, 12389,
         95, 12389, 10, 32, 32, 32, 32, 32, 32, 32, 32>>,

       <<10, 32, 32, 32, 32, 32, 32, 32, 32, 32, 32, 32, 32, 32, 32, 32,
         32, 46, 183, 180, 175, 96, 183, 46, 32, 32, 183, 180, 175, 183,
         46, 10, 32, 32, 32, 32, 32, 32, 32, 32, 124, 10, 32, 32, 32, 32,
         32, 32, 32, 32, 124, 32, 32, 32, 124, 95, 95, 32, 32, 32, 32, 32,
         9586, 32, 32, 9586, 32, 9586, 10, 32, 32, 32, 32, 32, 32, 32, 32,
         124, 12525, 32, 124, 32, 32, 32, 32, 32, 32, 32, 9586, 9586, 32,
         32, 32, 32, 32, 47, 92, 126, 47, 32, 32, 32, 32, 32, 32, 32, 32,
         124, 12525, 32, 124, 32, 32, 32, 32, 32, 32, 32, 32, 9586, 32,
         9586, 32, 32, 40, 32, 8226, 969, 32, 8226, 32, 41, 10, 32, 32,
         32, 32, 32, 32, 32, 32, 124, 12525, 32, 124, 32, 32, 32, 32, 32,
         32, 32, 32, 32, 9586, 32, 32, 32, 8834, 32, 32, 32, 32, 32,
         12389, 10, 32, 32, 32, 32, 32, 32, 32, 32, 124, 12525, 32, 124,
         32, 32, 32, 32, 32, 32, 32, 32, 32, 32, 9586, 32, 9586, 32, 32,
         32, 32, 32, 8835, 8835, 9586, 10, 32, 32, 32, 32, 32, 32, 32, 32,
         124, 12525, 32, 124, 95, 95, 95, 32, 32, 32, 32, 32, 32, 32, 32,
         9586, 124, 32, 95, 32, 9586, 124, 95, 95, 10, 32, 32, 32, 32, 32,
         32, 32, 32>>,

       <<10, 32, 32, 32, 32, 32, 32, 32, 32, 9585, 124, 12289, 10, 32, 32,
         32, 32, 32, 32, 32, 32, 40, 730, 718, 32, 12290, 55, 32, 32, 10,
         32, 32, 32, 32, 32, 32, 32, 32, 124, 12289, 732, 12341, 32, 32,
         32, 32, 32, 32, 32, 32, 32, 32, 10, 32, 32, 32, 32, 32, 32, 32,
         32, 12376, 12375, 717, 44, 41, 12494, 10, 32, 32, 32, 32, 32, 32,
         32, 32>>,

       <<10, 32, 32, 32, 32, 32, 32, 32, 32, 32, 124, 92, 95, 47, 124, 32,
         32, 32, 32, 32, 32, 32, 32, 32, 32, 32, 32, 32, 32, 32, 32, 32,
         32, 10, 32, 32, 32, 32, 32, 32, 32, 32, 32, 124, 32, 64, 32, 64,
         32, 32, 32, 87, 111, 111, 102, 33, 32, 10, 32, 32, 32, 32, 32,
         32, 32, 32, 32, 124, 32, 32, 32, 60, 62, 32, 32, 32, 32, 32, 32,
         32, 32, 32, 32, 32, 32, 32, 32, 95, 32, 32, 10, 32, 32, 32, 32,
         32, 32, 32, 32, 32, 124, 32, 32, 95, 47, 92, 45, 45, 45, 45, 45,
         45, 95, 95, 95, 95, 32, 40, 40, 124, 32, 124, 41, 41, 10, 32, 32,
         32, 32, 32, 32, 32, 32, 32, 124, 32, 32, 32, 32, 32, 32, 32, 32,
         32, 32, 32, 32, 32, 32, 32, 96, 45, 45, 39, 32, 124, 32, 32, 32,
         10, 32, 32, 32, 32, 32, 32, 32, 32, 95, 95, 95, 95, 124, 95, 32,
         32, 32, 32, 32, 32, 32, 95, 95, 95, 124, 32, 32, 32, 124, 95, 95,
         95, 46, 39, 32, 10, 32, 32, 32, 32, 32, 32, 32, 32, 47, 95, 47,
         95, 95, 95, 95, 95, 47, 95, 95, 95, 95, 47, 95, 95, 95, 95, 95,
         95, 95, 124, 10, 32, 32, 32, 32, 32, 32, 32, 32>>,

       <<10, 32, 32, 32, 32, 32, 32, 32, 32, 32, 124, 92, 124, 32, 32, 32,
         32, 32, 32, 32, 32, 46, 46, 32, 32, 32, 32, 92, 32, 32, 32, 32,
         32, 32, 32, 46, 10, 32, 32, 32, 32, 32, 32, 32, 32, 111, 45, 45,
         32, 32, 32, 32, 32, 92, 32, 32, 32, 32, 47, 32, 64, 41, 10, 32,
         32, 32, 32, 32, 32, 32, 32, 118, 95, 95, 47, 47, 47, 92, 92, 95,
         95, 47, 32, 64, 10, 32, 32, 32, 32, 32, 32, 32, 32, 123, 32, 32,
         32, 32, 32, 32, 32, 32, 32, 32, 32, 125, 10, 32, 32, 32, 32, 32,
         32, 32, 32, 123, 32, 32, 125, 32, 92, 92, 123, 32, 32, 125, 10,
         32, 32, 32, 32, 32, 32, 32, 32, 60, 95, 124, 32, 32, 32, 32, 32,
         32, 60, 95, 124, 10, 32, 32, 32, 32, 32, 32, 32, 32>>,

       <<10, 32, 32, 32, 32, 32, 32, 32, 32, 10240, 10240, 10240, 10240,
         10432, 10304, 10240, 10240, 10240, 10240, 10240, 10240, 10240,
         10240, 10240, 10240, 10240, 10240, 10240, 10240, 10240, 10240,
         10240, 10240, 10240, 10240, 10240, 10240, 10240, 10240, 10240,
         10240, 10240, 10, 32, 32, 32, 32, 32, 32, 32, 32, 10400, 10468,
         10304, 10494, 10495, 10495, 10240, 10468, 10468, 10308, 10240,
         10240, 10240, 10240, 10240, 10240, 10240, 10240, 10240, 10240,
         10240, 10240, 10240, 10240, 10240, 10240, 10240, 10240, 10240,
         10240, 10240, 10240, 10240, 10240, 10240, 10240, 10240, 10240,
         10240, 10240, 10240, 10, 32, 32, 32, 32, 32, 32, 32, 32, 10431,
         10495, 10311, 10264, 10267, 10241, 10424, 10495, 10495, 10243,
         10240, 10240, 10240, 10240, 10240, 10240, 10240, 10240, 10240,
         10240, 10240, 10240, 10240, 10240, 10240, 10240, 10240, 10240,
         10240, 10240, 10240, 10240, 10240, 10240, 10240, 10240, 10240,
         10240, 10240, 10240, 10240, 10, 32, 32, 32, 32, 32, 32, 32, 32,
         10248, 10441, 10468, 10494, 10495, 10495, 10310, 10249, 10484,
         10486, 10486, 10240, 10240, 10240, 10240, 10240, 10240, 10240,
         10240, 10240, 10240, 10240, 10240, 10240, 10240, 10240, 10240,
         10240, 10240, 10240, 10240, 10240, 10, 32, 32, 32, 32, 32, 32,
         32, 32, 10494, 10495, 10495, 10495, 10495, 10495, 10495, 10304,
         10299, 10271, 10243, 10240, 10240, 10240, 10240, 10240, 10240,
         10240, 10240, 10240, 10240, 10240, 10240, 10240, 10240, 10240,
         10240, 10240, 10, 32, 32, 32, 32, 32, 32, 32, 32, 10265, 10267,
         10299, 10431, 10495, 10495, 10495, 10311, 10240, 10240, 10240,
         10240, 10240, 10240, 10240, 10240, 10240, 10240, 10240, 10240,
         10240, 10240, 10240, 10240, 10240, 10240, 10240, 10240, 10, 32,
         32, 32, 32, 32, 32, 32, 32, 10240, 10240, 10240, 10240, 10248,
         10265, 10251, 10241, 10240, 10240, 10, 32, 32, 32, 32, 32, 32,
         32, 32>>,

       <<10, 32, 32, 32, 32, 32, 32, 32, 32, 40, 92, 95, 47, 41, 10, 32,
         32, 32, 32, 32, 32, 32, 32, 40, 32, 8226, 44, 8226, 41, 10, 32,
         32, 32, 32, 32, 32, 32, 32, 40, 34, 41, 95, 40, 34, 41, 10, 32,
         32, 32, 32, 32, 32, 32, 32>>,

       <<10, 32, 32, 32, 32, 32, 32, 32, 32, 95, 9608, 9608, 95, 10, 32,
         32, 32, 32, 32, 32, 32, 32, 8249, 40, 8226, 191, 8226, 41, 8250,
         10, 32, 32, 32, 32, 32, 32, 32, 32, 46, 46, 40, 9608, 41, 10, 32,
         32, 32, 32, 32, 32, 32, 32, 46, 46, 46, 47, 32, 73, 10, 32, 32,
         32, 32, 32, 32, 32, 32>> >>

\* f"Woof! Hello there! <dog face>\n{dog_art}" for the drawing random.choice
\* picked
WoofText(art) == WoofHead \o DogArts[art]

InvalidDateText ==
    <<73, 110, 118, 97, 108, 105, 100, 32, 100, 97, 116, 101, 32, 102,
      111, 114, 109, 97, 116, 46, 32, 80, 108, 101, 97, 115, 101, 32, 117,
      115, 101, 32, 89, 89, 89, 89, 45, 77, 77, 45, 68, 68, 32, 102, 111,
      114, 109, 97, 116, 32, 40, 101, 46, 103, 46, 44, 32, 50, 48, 50, 53,
      45, 48, 52, 45, 49, 57, 41, 46>>

InvalidDateHead == <<73, 110, 118, 97, 108, 105, 100, 32, 100, 97, 116,
                     101, 32, 102, 111, 114, 109, 97, 116>>

SorryText ==
    <<83, 111, 114, 114, 121, 44, 32, 73, 32, 99, 111, 117, 108, 100, 110,
      39, 116, 32, 102, 101, 116, 99, 104, 32, 116, 104, 101, 32, 110,
      101, 119, 115, 46, 32, 80, 108, 101, 97, 115, 101, 32, 116, 114,
      121, 32, 97, 103, 97, 105, 110, 32, 108, 97, 116, 101, 114, 46>>

\* what fetch_unwire_news returns
NewsText == <<110, 101, 119, 115>>

\* the reply of handle_error
FailureText == <<101, 114, 114, 111, 114>>

\* the reply of handle_flood_wait_error
FloodText == <<102, 108, 111, 111, 100, 32, 119, 97, 105, 116>>

(***************************************************************************)
(* The reply of /ping.  The clock is time.time() in microseconds.          *)
(***************************************************************************)
\* the latency measured after the reply call was acknowledged
PingLatenciesAfterAck(start_time, end_time) == {0}

\* round((end_time - start_time) * 1000, 2), in hundredths of a
\* millisecond.  A difference that ends in 5 microseconds lies half way
\* between two hundredths; the floating-point product is then just below
\* or just above the half, so either neighbour can be the result.
PingLatencies(start_time, end_time) ==
    LET d == end_time - start_time
    IN IF d % 10 = 5 THEN {d \div 10, d \div 10 + 1} ELSE {(d + 5) \div 10}

\* str(latency) for a float of q hundredths: the integer part, a point,
\* and one or two decimals
FloatText(q) ==
    Dec(q \div 100) \o <<46>> \o
        (IF q % 10 = 0 THEN <<48 + ((q % 100) \div 10)>>
         ELSE <<48 + ((q % 100) \div 10), 48 + (q % 10)>>)

ServiceText == <<109, 115, 10, 83, 101, 114, 118, 105, 99, 101, 58, 32,
                 65, 122, 117, 114, 101, 10, 76, 111, 99, 97, 116, 105,
                 111, 110, 58, 32>>

\* f"{latency}ms\nService: {service}\nLocation: {location}"
PingResponse(latency, location) ==
    FloatText(latency) \o ServiceText \o location

\* the initial value of location
LocUnknown == <<85, 110, 107, 110, 111, 119, 110>>

\* a region name
LocRegion == <<101, 97, 115, 116, 97, 115, 105, 97>>

\* the prefix of the line of /etc/os-release that is looked for
PrettyNameKey == <<80, 82, 69, 84, 84, 89, 95, 78, 65, 77, 69, 61>>

\* a /etc/os-release
OsReleaseLines ==
    << <<78, 65, 77, 69, 61, 34, 68, 101, 98, 105, 97, 110, 32, 71, 78,
         85, 47, 76, 105, 110, 117, 120, 34, 10>>,
       <<80, 82, 69, 84, 84, 89, 95, 78, 65, 77, 69, 61, 34, 68, 101, 98,
         105, 97, 110, 32, 71, 78, 85, 47, 76, 105, 110, 117, 120, 32, 49,
         50, 32, 40, 98, 111, 111, 107, 119, 111, 114, 109, 41, 34, 10>>,
       <<73, 68, 61, 100, 101, 98, 105, 97, 110, 10>> >>

\* line.split('=')[1].strip().strip('"') of the first line that starts
\* with PRETTY_NAME=; Unset when there is no such line
RECURSIVE PrettyNameFrom(_, _)
PrettyNameFrom(lines, i) ==
    IF i > Len(lines) THEN Unset
    ELSE IF StartsWith(lines[i], PrettyNameKey)
         THEN SetTo(Strip(Strip(SplitOn(lines[i], 61)[2], SpaceChars), {34}))
         ELSE PrettyNameFrom(lines, i + 1)

\* The location lookup of _process_ping (lines 91-132).  where is what the
\* lookup finds around it:
\*   region, location  AZURE_REGION and AZURE_LOCATION of os.environ
\*   requests          "missing" (import requests raises), "fails" (the
\*                     request raises or is not answered with 200), "ok"
\*   metadata          compute.location of the answer, when it has one
\*   linux             platform.system() == 'Linux'
\*   os_release        the lines of /etc/os-release, when it can be read
LookupLocation(where) ==
    LET from_env ==
            IF where.region.isset THEN where.region.value
            ELSE IF where.location.isset THEN where.location.value
            ELSE LocUnknown
        from_metadata ==
            IF from_env # LocUnknown \/ where.requests # "ok" THEN from_env
            ELSE Getenv(where.metadata, LocUnknown)
        pretty ==
            IF where.linux /\ where.os_release.isset
            THEN PrettyNameFrom(where.os_release.value, 1)
            ELSE Unset
    IN IF from_env = LocUnknown /\ where.requests = "missing"
       THEN LocUnknown
       ELSE IF from_metadata = LocUnknown
            THEN Getenv(pretty, LocUnknown)
            ELSE from_metadata

\* nothing is set, the metadata service does not answer, not on Linux
NoWhere ==
    [region |-> Unset, location |-> Unset, requests |-> "fails",
     metadata |-> Unset, linux |-> FALSE, os_release |-> Unset]

\* the surroundings the model lets a /ping run in
Wheres ==
    { NoWhere,
      [NoWhere EXCEPT !.region = SetTo(LocRegion)],
      [NoWhere EXCEPT !.location = SetTo(LocRegion)],
      [NoWhere EXCEPT !.requests = "ok", !.metadata = SetTo(LocRegion)],
      [NoWhere EXCEPT !.linux = TRUE, !.os_release = SetTo(OsReleaseLines)],
      [NoWhere EXCEPT !.requests = "missing", !.linux = TRUE,
                      !.os_release = SetTo(OsReleaseLines)] }

(***************************************************************************)
(* Inbound texts the transport may deliver.                                *)
(***************************************************************************)
TxtUnwireValid == <<47, 117, 110, 119, 105, 114, 101, 32, 50, 48, 50, 53,
                    45, 48, 52, 45, 49, 57>>

TxtUnwireBadMonth == <<47, 117, 110, 119, 105, 114, 101, 32, 50, 48, 50,
                       53, 45, 49, 51, 45, 57, 57>>

TxtPingArg == <<47, 112, 105, 110, 103, 32, 110, 111, 119>>

TxtXenv == <<47, 120, 101, 110, 118>>

Texts == {PingLit, HiDogLit, TestLit, EnvLit, DotEnvLit, UnwireLit,
          TxtUnwireValid, TxtUnwireBadMonth, TxtPingArg, TxtXenv}

(***************************************************************************)
(* State.                                                                  *)
(*   now           time.time(), in microseconds                            *)
(*   events        the inbound events the transport has delivered          *)
(*   tasks         every task created so far; a task's handle is its index *)
(*   handlers      client.handlers: task id -> task handle                 *)
(*   active_tasks  client.active_tasks: set of task handles                *)
(*   replies       per event (by its position in events), the messages and *)
(*                 edits sent for it                                       *)
(*   shutdown      cancel_all has been called                              *)
(***************************************************************************)
VARIABLES now, events, tasks, handlers, active_tasks, replies, shutdown

vars == <<now, events, tasks, handlers, active_tasks, replies, shutdown>>

\* the values of event.id: the message id, which Telegram counts per chat,
\* so that two events can carry the same one
EventIds == 1..MaxEvents

\* what an awaited transport call can do: return, raise FloodWaitError,
\* raise another Exception
Outcomes == {"ok", "flood", "error"}

\* the indices of dog_arts random.choice picks from
Arts == 1..Len(DogArts)

Terminal == {"COMPLETED", "FAILED", "CANCELLED"}

\* int(time.time())
Second(clock) == clock \div 1000000

Init ==
    /\ now = FirstSecond * 1000000
    /\ events = <<>>
    /\ tasks = <<>>
    /\ handlers = <<>>
    /\ active_tasks = {}
    /\ replies = [e \in 1..MaxEvents |-> <<>>]
    /\ shutdown = FALSE

(***************************************************************************)
(* The *_handler functions: create the task, store it under its id, add it *)
(* to the active set, attach the two done-callbacks.  They contain no      *)
(* await, so each runs as one step.  st is the tracker state               *)
(* [tasks, handlers, active_tasks]; ev is the event (index is its position *)
(* in events), ts is int(time.time()).                                     *)
(***************************************************************************)
\* self.client.handlers[task_id] = task
DictSet(d, k, v) == [x \in DOMAIN d \cup {k} |-> IF x = k THEN v ELSE d[x]]

\* self.client.handlers.pop(task_id, None)
DictPop(d, k) == [x \in DOMAIN d \ {k} |-> d[x]]

\* asyncio.create_task(self._process_<cmd>(event)): a task that has not
\* yet taken a step
NewTask(cmd, ev, task_id) ==
    [cmd |-> cmd, event |-> ev.index, task_id |-> task_id,
     created |-> 0, state |-> "PENDING", pc |-> "start", must_cancel |-> FALSE,
     callbacks |-> <<>>, scheduled |-> <<>>, hook_runs |-> 0,
     start_time |-> 0, message |-> 0, edit_text |-> <<>>,
     fetches |-> <<>>, fetch_raised |-> FALSE, raised |-> FALSE]

\* registration without the handlers.pop done-callback
SpawnTrackedNoPop(st, cmd, prefix, ev, ts) ==
    LET task_id == TaskId(prefix, ev.id, ts)
        t == Len(st.tasks) + 1
        task == [NewTask(cmd, ev, task_id) EXCEPT
                    !.created = ts,
                    !.callbacks = << [fn |-> "discard", key |-> <<>>] >>]
    IN [tasks |-> Append(st.tasks, task),
        handlers |-> DictSet(st.handlers, task_id, t),
        active_tasks |-> st.active_tasks \cup {t}]

\* registration without the active_tasks.discard done-callback
SpawnTrackedNoDiscard(st, cmd, prefix, ev, ts) ==
    LET task_id == TaskId(prefix, ev.id, ts)
        t == Len(st.tasks) + 1
        task == [NewTask(cmd, ev, task_id) EXCEPT
                    !.created = ts,
                    !.callbacks = << [fn |-> "pop", key |-> task_id] >>]
    IN [tasks |-> Append(st.tasks, task),
        handlers |-> DictSet(st.handlers, task_id, t),
        active_tasks |-> st.active_tasks \cup {t}]

\* a handler that awaits the work instead of creating a task for it: the
\* work has ended when the handler returns
SpawnTrackedAwaited(st, cmd, prefix, ev, ts) ==
    LET task_id == TaskId(prefix, ev.id, ts)
        task == [NewTask(cmd, ev, task_id) EXCEPT
                    !.created = ts, !.state = "COMPLETED", !.pc = "done",
                    !.hook_runs = 1]
    IN [tasks |-> Append(st.tasks, task),
        handlers |-> st.handlers,
        active_tasks |-> st.active_tasks]

\* a handler that suspends after storing the task in handlers: the task
\* can run before it is added to active_tasks
SpawnTrackedLateAdd(st, cmd, prefix, ev, ts) ==
    LET task_id == TaskId(prefix, ev.id, ts)
        t == Len(st.tasks) + 1
        task == [NewTask(cmd, ev, task_id) EXCEPT
                    !.created = ts,
                    !.callbacks = << [fn |-> "discard", key |-> <<>>],
                                     [fn |-> "pop", key |-> task_id] >>]
    IN [tasks |-> Append(st.tasks, task),
        handlers |-> DictSet(st.handlers, task_id, t),
        active_tasks |-> st.active_tasks]

\* a handler that returns without having created the task
SpawnTrackedDeferred(st, cmd, prefix, ev, ts) == st

\* the body shared by the five *_handler functions
SpawnTracked(st, cmd, prefix, ev, ts) ==
    LET task_id == TaskId(prefix, ev.id, ts)
        t == Len(st.tasks) + 1
        task == [NewTask(cmd, ev, task_id) EXCEPT
                    !.created = ts,
                    !.callbacks = << [fn |-> "discard", key |-> <<>>],
                                     [fn |-> "pop", key |-> task_id] >>]
    IN [tasks |-> Append(st.tasks, task),
        handlers |-> DictSet(st.handlers, task_id, t),
        active_tasks |-> st.active_tasks \cup {t}]

ping_handler(st, ev, ts) == SpawnTracked(st, "ping", PingPrefix, ev, ts)

hi_dog_handler(st, ev, ts) == SpawnTracked(st, "hi_dog", HiDogPrefix, ev, ts)

test_handler(st, ev, ts) == SpawnTracked(st, "test", TestPrefix, ev, ts)

env_handler(st, ev, ts) == SpawnTracked(st, "env", EnvPrefix, ev, ts)

\* a /.env handler that spawns its own task besides calling env_handler
dotenv_handler_twice(st, ev, ts) ==
    env_handler(env_handler(st, ev, ts), ev, ts)

\* await self.env_handler(event): env_handler never suspends
dotenv_handler(st, ev, ts) == env_handler(st, ev, ts)

unwire_handler(st, ev, ts) == SpawnTracked(st, "unwire", UnwirePrefix, ev, ts)

CallHandler(name, st, ev, ts) ==
    CASE name = "ping_handler" -> ping_handler(st, ev, ts)
      [] name = "hi_dog_handler" -> hi_dog_handler(st, ev, ts)
      [] name = "test_handler" -> test_handler(st, ev, ts)
      [] name = "env_handler" -> env_handler(st, ev, ts)
      [] name = "dotenv_handler" -> dotenv_handler(st, ev, ts)
      [] name = "unwire_handler" -> unwire_handler(st, ev, ts)

\* the transport calls, in registration order, every handler whose pattern
\* matches the event's text
RECURSIVE DispatchFrom(_, _, _, _)
DispatchFrom(i, st, ev, ts) ==
    IF i > Len(Registry) THEN st
    ELSE DispatchFrom(i + 1,
                      IF Matches(Registry[i], ev.text)
                      THEN CallHandler(Registry[i].handler, st, ev, ts)
                      ELSE st,
                      ev, ts)

\* an inbound event arrives and is dispatched; event.id is the message id
NewMessage(id, text) ==
    /\ Len(events) < MaxEvents
    /\ LET ev == [index |-> Len(events) + 1, id |-> id, text |-> text]
           st == DispatchFrom(1, [tasks |-> tasks, handlers |-> handlers,
                                  active_tasks |-> active_tasks], ev,
                              Second(now))
       IN /\ tasks' = st.tasks
          /\ handlers' = st.handlers
          /\ active_tasks' = st.active_tasks
          /\ events' = Append(events, [id |-> id, text |-> text])
    /\ UNCHANGED <<now, replies, shutdown>>

\* the clock advances
Tick ==
    /\ now < FirstSecond * 1000000 + MaxTicks * TickMicros
    /\ now' = now + TickMicros
    /\ UNCHANGED <<events, tasks, handlers, active_tasks, replies, shutdown>>

(***************************************************************************)
(* Task steps.  A task is PENDING until its first step, RUNNING while it   *)
(* is suspended in an await, and then COMPLETED (the coroutine returned),  *)
(* FAILED (an exception left it) or CANCELLED.  When a task ends, asyncio  *)
(* schedules its done-callbacks with call_soon; they run, in the order     *)
(* they were added, in a later step of the loop.                           *)
(***************************************************************************)
\* a cleanup that runs only when the coroutine returns normally
FinishCleanupOnReturnOnly(task, st) ==
    [task EXCEPT !.state = st, !.pc = "done",
                 !.scheduled = IF st = "COMPLETED" THEN task.callbacks
                               ELSE <<>>]

\* the task ends in state st: its done-callbacks are scheduled
Finish(task, st) ==
    [task EXCEPT !.state = st, !.pc = "done", !.scheduled = task.callbacks]

\* the task suspends in an awaited transport call, at position pc
Await(task, pc) == [task EXCEPT !.state = "RUNNING", !.pc = pc]

\* a message sent for event e (event.respond / event.reply), or an edit of
\* message number target
Sent(e, via, text, target) ==
    [replies EXCEPT ![e] = Append(@, [via |-> via, text |-> text,
                                      target |-> target])]

\* a task that can take a step of its coroutine
Runnable(t, cmd) ==
    /\ t \in 1..Len(tasks)
    /\ tasks[t].cmd = cmd
    /\ tasks[t].state \in {"PENDING", "RUNNING"}
    /\ ~tasks[t].must_cancel

\* _process_ping: no try around the two awaits.  The step that resumes
\* from "await event.respond" takes end_time, computes the latency, looks
\* the location up (where is what the lookup finds) and issues the edit.
process_ping(t) ==
    /\ Runnable(t, "ping")
    /\ LET task == tasks[t] IN
       \/ /\ task.pc = "start"
          /\ tasks' = [tasks EXCEPT ![t] =
                         Await([task EXCEPT !.start_time = now], "respond")]
          /\ UNCHANGED replies
       \/ /\ task.pc = "respond"
          /\ replies' = Sent(task.event, "respond", PingingText, 0)
          /\ \E latency \in PingLatencies(task.start_time, now),
                where \in Wheres :
                tasks' = [tasks EXCEPT ![t] =
                            Await([task EXCEPT
                                     !.message = Len(replies[task.event]) + 1,
                                     !.edit_text =
                                         PingResponse(latency,
                                                      LookupLocation(where))],
                                  "edit")]
       \/ /\ task.pc = "edit"
          /\ replies' = Sent(task.event, "edit", task.edit_text, task.message)
          /\ tasks' = [tasks EXCEPT ![t] = Finish(task, "COMPLETED")]
       \/ /\ task.pc \in {"respond", "edit"}
          /\ \E out \in Outcomes \ {"ok"} :
                tasks' = [tasks EXCEPT ![t] =
                            Finish([task EXCEPT !.raised = TRUE], "FAILED")]
          /\ UNCHANGED replies
    /\ UNCHANGED <<now, events, handlers, active_tasks, shutdown>>

\* CommandHandler.handle_flood_wait_error and CommandHandler.handle_error:
\* one apology or failure reply; a failure of that reply is not propagated
handle_failure(t) ==
    LET task == tasks[t] IN
    /\ task.pc \in {"flood_reply", "error_reply"}
    /\ \E out \in Outcomes :
          replies' = IF out = "ok"
                     THEN Sent(task.event, "reply",
                               IF task.pc = "flood_reply" THEN FloodText
                               ELSE FailureText, 0)
                     ELSE replies
    /\ tasks' = [tasks EXCEPT ![t] = Finish(task, "COMPLETED")]

\* try: await event.reply(text)
\* except FloodWaitError: await self.handle_flood_wait_error(event, e)
\* except Exception: await self.handle_error(event, e)
\* texts holds the texts the body can have built for its reply
ReplyGuarded(t, texts) ==
    LET task == tasks[t] IN
    \/ /\ task.pc = "start"
       /\ tasks' = [tasks EXCEPT ![t] = Await(task, "reply")]
       /\ UNCHANGED replies
    \/ /\ task.pc = "reply"
       /\ \E text \in texts : replies' = Sent(task.event, "reply", text, 0)
       /\ tasks' = [tasks EXCEPT ![t] = Finish(task, "COMPLETED")]
    \/ /\ task.pc = "reply"
       /\ \E out \in Outcomes \ {"ok"} :
             tasks' = [tasks EXCEPT ![t] =
                         Await([task EXCEPT !.raised = TRUE],
                               IF out = "flood" THEN "flood_reply"
                               ELSE "error_reply")]
       /\ UNCHANGED replies
    \/ handle_failure(t)

\* _process_hi_dog: dog_art = random.choice(dog_arts)
process_hi_dog(t) ==
    /\ Runnable(t, "hi_dog")
    /\ ReplyGuarded(t, {WoofText(art) : art \in Arts})
    /\ UNCHANGED <<now, events, handlers, active_tasks, shutdown>>

\* a body that removes its own entries when it ends
process_test_self_cleaning(t) ==
    /\ Runnable(t, "test")
    /\ ReplyGuarded(t, {TestText})
    /\ handlers' = IF tasks'[t].state \in Terminal
                   THEN DictPop(handlers, tasks[t].task_id) ELSE handlers
    /\ active_tasks' = IF tasks'[t].state \in Terminal
                       THEN active_tasks \ {t} ELSE active_tasks
    /\ UNCHANGED <<now, events, shutdown>>

process_test(t) ==
    /\ Runnable(t, "test")
    /\ ReplyGuarded(t, {TestText})
    /\ UNCHANGED <<now, events, handlers, active_tasks, shutdown>>

\* _process_env: os.getenv finds the ENVIRONMENT variable unset or set
process_env(t) ==
    /\ Runnable(t, "env")
    /\ ReplyGuarded(t, {EnvResponse(env) : env \in Environs})
    /\ UNCHANGED <<now, events, handlers, active_tasks, shutdown>>

\* a call of fetch_unwire_news: with no argument, or with date=date_str
FetchCall(dated, date_str) == [dated |-> dated, date |-> date_str]

\* what a call of fetch_unwire_news can do: return the news text, raise a
\* ValueError (or a subclass of it, such as a JSON decoding error), raise
\* another Exception
FetchOutcomes == {"returned", "value_error", "error"}

\* _process_unwire.  fetch_unwire_news is a synchronous call, so the first
\* step runs up to the first await.  The dated call stands inside
\* "try: ... except ValueError", so a ValueError it raises is answered like
\* a malformed date; the call without a date stands outside it.
process_unwire(t) ==
    /\ Runnable(t, "unwire")
    /\ LET task == tasks[t] IN
       \/ /\ task.pc = "start"
          /\ LET command_text == Split(events[task.event].text)
                 dated == Len(command_text) # 1
                 date_str == IF dated THEN command_text[2] ELSE <<>>
             IN IF dated /\ ~StrptimeOk(date_str)
                THEN tasks' = [tasks EXCEPT ![t] =
                                 Await(task, "respond_invalid")]
                ELSE \E fetched \in FetchOutcomes :
                        tasks' = [tasks EXCEPT ![t] =
                            Await([task EXCEPT
                                     !.fetches =
                                         Append(@, FetchCall(dated, date_str)),
                                     !.fetch_raised = fetched # "returned",
                                     !.raised = fetched # "returned"],
                                  IF fetched = "returned" THEN "respond_news"
                                  ELSE IF fetched = "value_error" /\ dated
                                       THEN "respond_invalid"
                                  ELSE "respond_sorry")]
          /\ UNCHANGED replies
       \/ /\ task.pc = "respond_invalid"
          /\ replies' = Sent(task.event, "respond", InvalidDateText, 0)
          /\ tasks' = [tasks EXCEPT ![t] = Finish(task, "COMPLETED")]
       \/ /\ task.pc = "respond_news"
          /\ replies' = Sent(task.event, "respond", NewsText, 0)
          /\ tasks' = [tasks EXCEPT ![t] = Finish(task, "COMPLETED")]
       \/ /\ task.pc \in {"respond_invalid", "respond_news"}
          /\ \E out \in Outcomes \ {"ok"} :
                tasks' = [tasks EXCEPT ![t] =
                            Await([task EXCEPT !.raised = TRUE],
                                  "respond_sorry")]
          /\ UNCHANGED replies
       \/ /\ task.pc = "respond_sorry"
          /\ replies' = Sent(task.event, "respond", SorryText, 0)
          /\ tasks' = [tasks EXCEPT ![t] = Finish(task, "COMPLETED")]
       \/ /\ task.pc = "respond_sorry"
          /\ \E out \in Outcomes \ {"ok"} :
                tasks' = [tasks EXCEPT ![t] =
                            Finish([task EXCEPT !.raised = TRUE], "FAILED")]
          /\ UNCHANGED replies
    /\ UNCHANGED <<now, events, handlers, active_tasks, shutdown>>

\* a coroutine that catches CancelledError and goes on waiting
task_cancelled_swallowed(t) ==
    /\ t \in 1..Len(tasks)
    /\ tasks[t].state \in {"PENDING", "RUNNING"}
    /\ tasks[t].must_cancel
    /\ tasks' = [tasks EXCEPT ![t].must_cancel = FALSE]
    /\ UNCHANGED <<now, events, handlers, active_tasks, replies, shutdown>>

\* a task whose cancellation was requested takes its next step:
\* CancelledError is thrown into the coroutine and no handler catches it
task_cancelled(t) ==
    /\ t \in 1..Len(tasks)
    /\ tasks[t].state \in {"PENDING", "RUNNING"}
    /\ tasks[t].must_cancel
    /\ tasks' = [tasks EXCEPT ![t] = Finish(tasks[t], "CANCELLED")]
    /\ UNCHANGED <<now, events, handlers, active_tasks, replies, shutdown>>

\* the effect of the done-callbacks cbs of task t, run in order, on the
\* tracker state st = [handlers, active_tasks]
RECURSIVE RunCallbacks(_, _, _)
RunCallbacks(cbs, t, st) ==
    IF cbs = <<>> THEN st
    ELSE RunCallbacks(Tail(cbs), t,
            IF Head(cbs).fn = "discard"
            THEN [st EXCEPT !.active_tasks = @ \ {t}]
            ELSE [st EXCEPT !.handlers = DictPop(@, Head(cbs).key)])

\* the loop runs the scheduled done-callbacks of a finished task:
\* self.client.active_tasks.discard(task), then
\* self.client.handlers.pop(task_id, None)
run_done_callbacks(t) ==
    /\ t \in 1..Len(tasks)
    /\ tasks[t].scheduled # <<>>
    /\ LET st == RunCallbacks(tasks[t].scheduled, t,
                              [handlers |-> handlers,
                               active_tasks |-> active_tasks])
       IN /\ handlers' = st.handlers
          /\ active_tasks' = st.active_tasks
    /\ tasks' = [tasks EXCEPT ![t].scheduled = <<>>,
                              ![t].hook_runs = @ + 1]
    /\ UNCHANGED <<now, events, replies, shutdown>>

\* cancel_all(), called once at shutdown: task.cancel() on every tracked
\* task; cancel() does nothing to a task that is already done
cancel_all ==
    /\ ~shutdown
    /\ shutdown' = TRUE
    /\ tasks' = [t \in 1..Len(tasks) |->
                   IF t \in active_tasks
                      /\ tasks[t].state \in {"PENDING", "RUNNING"}
                   THEN [tasks[t] EXCEPT !.must_cancel = TRUE]
                   ELSE tasks[t]]
    /\ UNCHANGED <<now, events, handlers, active_tasks, replies>>

Tasks == 1..MaxEvents

Next ==
    \/ \E id \in EventIds, text \in Texts : NewMessage(id, text)
    \/ Tick
    \/ \E t \in Tasks : process_ping(t)
    \/ \E t \in Tasks : process_hi_dog(t)
    \/ \E t \in Tasks : process_test(t)
    \/ \E t \in Tasks : process_env(t)
    \/ \E t \in Tasks : process_unwire(t)
    \/ \E t \in Tasks : task_cancelled(t)
    \/ \E t \in Tasks : run_done_callbacks(t)
    \/ cancel_all

Spec == Init /\ [][Next]_vars

(***************************************************************************)
(* The event loop runs what is scheduled: a cancelled task gets its        *)
(* CancelledError and scheduled done-callbacks are called.  The transport  *)
(* owes no answer, so the process_* steps carry no fairness.               *)
(***************************************************************************)
LoopFairness ==
    \A t \in Tasks : WF_vars(task_cancelled(t)) /\ WF_vars(run_done_callbacks(t))

LiveSpec == Init /\ [][Next]_vars /\ LoopFairness

(***************************************************************************)
(* Properties.                                                             *)
(***************************************************************************)
TaskSet == 1..Len(tasks)

\* the task has ended and the loop has run the done-callbacks scheduled
\* for it
Settled(t) == tasks[t].state \in Terminal /\ tasks[t].scheduled = <<>>

TrackerEmpty == DOMAIN handlers = {} /\ active_tasks = {}

\* the text of the event task t was created for, and what was sent for it
TextOf(t) == events[tasks[t].event].text

SentFor(t) == replies[tasks[t].event]

\* in this step the loop runs the done-callbacks of task t
HookStep(t) == tasks[t].scheduled # <<>> /\ tasks'[t].scheduled = <<>>

\* the two done-callbacks a handler attaches to the task stored under id
BothCallbacks(id) ==
    << [fn |-> "discard", key |-> <<>>], [fn |-> "pop", key |-> id] >>

\* C1: once every dispatched task has finished (returned, failed or been
\* cancelled, in any order) and the loop has processed its completion,
\* client.handlers and client.active_tasks are both empty.
C1_TrackerDrains ==
    (\A t \in TaskSet : Settled(t)) => TrackerEmpty

\* two overlapping commands have both finished, one by an uncaught
\* exception and one by cancellation
C1_Witness ==
    /\ Len(tasks) = 2
    /\ \A t \in TaskSet : Settled(t)
    /\ tasks[1].state = "FAILED"
    /\ tasks[2].state = "CANCELLED"
    /\ tasks[1].created = tasks[2].created

\* C2: two dispatches that come from distinct events have different task
\* ids, also within the same second and for the same command.
C2_DistinctIds ==
    \A t1, t2 \in TaskSet :
        tasks[t1].event # tasks[t2].event
            => tasks[t1].task_id # tasks[t2].task_id

\* C3: the completion hook of a task runs exactly once however the task
\* ends: it has not run before the task ends, a task that has ended has
\* its hook either scheduled and not yet run or run exactly once; the step
\* in which it runs leaves the task's handle out of active_tasks and no
\* entry under the task's id in handlers, and from then on the handle is
\* neither in active_tasks nor a value of handlers.
C3_HookOnce ==
    /\ [](\A t \in TaskSet :
            /\ tasks[t].hook_runs <= 1
            /\ tasks[t].state \notin Terminal => tasks[t].hook_runs = 0
            /\ Settled(t) => tasks[t].hook_runs = 1
            /\ tasks[t].state \in Terminal /\ tasks[t].scheduled # <<>>
                  => tasks[t].hook_runs = 0
            /\ tasks[t].hook_runs = 1
                  => /\ t \notin active_tasks
                     /\ \A k \in DOMAIN handlers : handlers[k] # t)
    /\ [][\A t \in TaskSet :
            HookStep(t)
               => /\ tasks'[t].hook_runs = tasks[t].hook_runs + 1
                  /\ t \notin active_tasks'
                  /\ tasks[t].task_id \notin DOMAIN handlers']_vars

\* the hook has run for a task of each kind of ending
C3_Witness ==
    /\ Len(tasks) = 2
    /\ tasks[1].state = "CANCELLED" /\ tasks[1].hook_runs = 1
    /\ tasks[2].state = "FAILED" /\ tasks[2].hook_runs = 1

\* the texts of the model that match none of the six patterns
UnmatchedTexts == {TxtPingArg, TxtXenv}

\* C4: dispatching a text that matches none of the six patterns changes
\* neither handlers nor active_tasks, creates no task and sends no reply.
C4_UnmatchedIgnored ==
    [][(/\ Len(events') = Len(events) + 1
        /\ events'[Len(events')].text \in UnmatchedTexts)
          => UNCHANGED <<tasks, handlers, active_tasks, replies>>]_vars

\* an unmatched text has been delivered while a task was tracked
C4_Witness ==
    /\ Len(events) = 2
    /\ events[2].text = TxtPingArg
    /\ Len(tasks) = 1
    /\ active_tasks = {1}

\* cancel_all has been called and every tracked task that has not ended
\* has its cancellation requested
AllCancelled ==
    /\ shutdown
    /\ \A t \in active_tasks :
          tasks[t].state \in Terminal \/ tasks[t].must_cancel

\* C5: once every tracked task has been cancelled by cancel_all, only
\* the dispatch of a new event can end that condition, and while it lasts
\* handlers and active_tasks become empty; and after cancel_all a step
\* that dispatches no event adds no entry to either of them.
C5_CancelDrains ==
    /\ AllCancelled ~> (TrackerEmpty \/ ~AllCancelled)
    /\ [][(AllCancelled /\ ~AllCancelled')
             => Len(events') = Len(events) + 1]_vars
    /\ [][(shutdown /\ Len(events') = Len(events))
             => /\ DOMAIN handlers' \subseteq DOMAIN handlers
                /\ active_tasks' \subseteq active_tasks]_vars

\* cancel_all was called while two tasks were running, and the tracker
\* has drained
C5_Witness ==
    /\ shutdown
    /\ Len(tasks) = 2
    /\ \A t \in TaskSet :
          /\ tasks[t].state = "CANCELLED"
          /\ tasks[t].pc = "done"
          /\ tasks[t].hook_runs = 1
    /\ TrackerEmpty

\* the replies that report a failure to the user
FailureTexts == {FailureText, FloodText, SorryText}

FailureReplies(e) ==
    {i \in 1..Len(replies[e]) : replies[e][i].text \in FailureTexts}

\* C6: when the body of a handler task raises, the sender gets exactly one
\* generic failure reply and the exception does not leave the task.
C6_FailureReported ==
    \A t \in TaskSet :
        (tasks[t].raised /\ tasks[t].state \in {"COMPLETED", "FAILED"})
            => /\ tasks[t].state # "FAILED"
               /\ Cardinality(FailureReplies(tasks[t].event)) = 1

\* the tasks of an /unwire whose argument has the date shape but is no
\* calendar date
BadDateTasks == {t \in TaskSet : TextOf(t) = TxtUnwireBadMonth}

\* C7 as stated: such a dispatch produces exactly one reply, which starts
\* with "Invalid date format", and the fetch is never called for it.
C7_InvalidDateAlways ==
    \A t \in BadDateTasks :
        /\ tasks[t].fetches = <<>>
        /\ tasks[t].state \in {"COMPLETED", "FAILED"}
              => /\ Len(SentFor(t)) = 1
                 /\ StartsWith(SentFor(t)[1].text, InvalidDateHead)

\* C7 amended: the fetch is never called for such a dispatch and at most
\* one reply is sent for it; when its task returns without a reply call
\* having raised, exactly one reply was sent and it starts with
\* "Invalid date format".
C7_InvalidDate ==
    \A t \in BadDateTasks :
        /\ tasks[t].fetches = <<>>
        /\ Len(SentFor(t)) <= 1
        /\ (tasks[t].state = "COMPLETED" /\ ~tasks[t].raised)
              => /\ Len(SentFor(t)) = 1
                 /\ StartsWith(SentFor(t)[1].text, InvalidDateHead)

\* /unwire 2025-13-99 has been answered
C7_Witness ==
    \E t \in BadDateTasks :
        /\ tasks[t].state = "COMPLETED"
        /\ ~tasks[t].raised
        /\ SentFor(t) =
              << [via |-> "respond", text |-> InvalidDateText, target |-> 0] >>

\* C8: the reply to /env is the one _process_env builds for some state of
\* the ENVIRONMENT variable, and it contains the configured environment
\* name (Config.environment) for that state in upper case.
C8_EnvReply ==
    \A t \in TaskSet :
        (tasks[t].cmd = "env" /\ tasks[t].state = "COMPLETED"
            /\ ~tasks[t].raised)
            => /\ Len(SentFor(t)) = 1
               /\ \E env \in Environs :
                     /\ SentFor(t)[1].text = EnvResponse(env)
                     /\ Contains(SentFor(t)[1].text,
                                 Upper(ConfigEnvironment(env)))

\* C9: a handler returns with its task created, registered and not yet
\* started, leaving every earlier task as it was; and an event can be
\* dispatched whatever the earlier tasks are doing.
C9_DispatchReturns ==
    /\ [][Len(tasks') > Len(tasks)
            => /\ Len(tasks') = Len(tasks) + 1
               /\ tasks'[Len(tasks')].state = "PENDING"
               /\ tasks'[Len(tasks')].pc = "start"
               /\ Len(tasks') \in active_tasks'
               /\ \A t \in TaskSet : tasks'[t] = tasks[t]]_vars
    /\ [](Len(events) < MaxEvents
            => \A id \in EventIds : ENABLED NewMessage(id, TestLit))

\* two tasks are tracked at the same time, the earlier one still waiting
\* for the transport
C9_Witness ==
    /\ Len(tasks) = 2
    /\ active_tasks = {1, 2}
    /\ tasks[1].state = "RUNNING"
    /\ tasks[2].state = "PENDING"
    /\ Cardinality(DOMAIN handlers) = 2

Rank(st) == IF st = "PENDING" THEN 0 ELSE IF st = "RUNNING" THEN 1 ELSE 2

\* C10: a task's state only moves forward from PENDING through RUNNING to
\* COMPLETED, FAILED or CANCELLED; a terminal state never changes; every
\* terminal state schedules the same removal, which takes the task out of
\* active_tasks and its id out of handlers; a finished task is never added
\* again.
C10_ForwardOnly ==
    [][/\ Len(tasks') >= Len(tasks)
       /\ \A t \in TaskSet :
            /\ Rank(tasks'[t].state) >= Rank(tasks[t].state)
            /\ tasks[t].state \in Terminal
                  => tasks'[t].state = tasks[t].state
            /\ (tasks[t].state \notin Terminal
                  /\ tasks'[t].state \in Terminal)
                  => tasks'[t].scheduled = BothCallbacks(tasks[t].task_id)
            /\ HookStep(t)
                  => /\ t \notin active_tasks'
                     /\ tasks[t].task_id \notin DOMAIN handlers'
            /\ (tasks[t].state \in Terminal /\ t \notin active_tasks)
                  => t \notin active_tasks'
            /\ (tasks[t].state \in Terminal
                  /\ \A k \in DOMAIN handlers : handlers[k] # t)
                  => \A k \in DOMAIN handlers' : handlers'[k] # t]_vars

\* one task has returned, another was cancelled, and both have been
\* removed from the tracker
C10_Witness ==
    /\ Len(tasks) = 2
    /\ tasks[1].state = "COMPLETED"
    /\ tasks[2].state = "CANCELLED"
    /\ \A t \in TaskSet : Settled(t)
    /\ TrackerEmpty

\* one step of the coroutine of task u, whatever the transport answers
TaskStep(u) ==
    \/ process_ping(u)
    \/ process_hi_dog(u)
    \/ process_test(u)
    \/ process_env(u)
    \/ process_unwire(u)

\* in this step an exception is raised in task t, or task t ends by an
\* exception or by cancellation
FailsIn(t) ==
    /\ tasks[t].state \notin Terminal
    /\ \/ tasks'[t].state \in {"FAILED", "CANCELLED"}
       \/ ~tasks[t].raised /\ tasks'[t].raised

\* in this step the done-callbacks of task t run, t having failed or been
\* cancelled
HookOfFailed(t) ==
    /\ tasks[t].state \in {"FAILED", "CANCELLED"} \/ tasks[t].raised
    /\ HookStep(t)

\* the step leaves every task other than t, its handlers entry and its
\* membership of active_tasks as they were
OthersUnchanged(t) ==
    \A u \in TaskSet \ {t} :
        /\ tasks'[u] = tasks[u]
        /\ u \in active_tasks' <=> u \in active_tasks
        /\ \A k \in DOMAIN handlers :
              handlers[k] = u => k \in DOMAIN handlers' /\ handlers'[k] = u

\* some task has raised, failed or been cancelled
SomeFailed ==
    \E t \in TaskSet :
        tasks[t].raised \/ tasks[t].state \in {"FAILED", "CANCELLED"}

\* C11: a step in which one task raises, fails or is cancelled, and the
\* step that runs its done-callbacks, leave every other task, its handlers
\* entry and its active_tasks membership unchanged; afterwards every other
\* task that is still in flight can take its next step, and an event that
\* arrives is dispatched.
C11_FailureIsolated ==
    /\ [][\A t \in TaskSet :
            (FailsIn(t) \/ HookOfFailed(t)) => OthersUnchanged(t)]_vars
    /\ [](\A u \in TaskSet :
            (SomeFailed /\ tasks[u].state \in {"PENDING", "RUNNING"}
                /\ ~tasks[u].must_cancel)
                => ENABLED TaskStep(u))
    /\ []((SomeFailed /\ Len(events) < MaxEvents)
            => ENABLED NewMessage(1, TestLit))

\* C12: tasks are created in the order the events are observed: a task is
\* created only in the step that delivers its event, every delivered event
\* that matches a pattern has its task created in that step, and so a task
\* created earlier belongs to an event observed earlier.  Completion is
\* not ordered (see C12_Witness).
C12_CreationOrder ==
    /\ [][/\ Len(tasks') > Len(tasks)
               => /\ Len(events') = Len(events) + 1
                  /\ \A t \in (Len(tasks) + 1)..Len(tasks') :
                        tasks'[t].event = Len(events')
          /\ (/\ Len(events') = Len(events) + 1
              /\ Matching(events'[Len(events')].text) # {})
               => /\ Len(tasks') > Len(tasks)
                  /\ Len(tasks') \in active_tasks'
                  /\ tasks'[Len(tasks')].task_id \in DOMAIN handlers']_vars
    /\ [](\A t1, t2 \in TaskSet :
            t1 < t2 => tasks[t1].event < tasks[t2].event)

\* the tasks of two events are both suspended in their last await, and
\* either of them can be the next to return: both completion orders are
\* reachable from this state
C12_Witness ==
    /\ Len(tasks) = 2
    /\ tasks[1].event = 1
    /\ tasks[2].event = 2
    /\ tasks[1].state = "RUNNING"
    /\ tasks[2].state = "RUNNING"
    /\ ENABLED (TaskStep(1) /\ tasks'[1].state = "COMPLETED"
                   /\ tasks'[2].state = "RUNNING")
    /\ ENABLED (TaskStep(2) /\ tasks'[2].state = "COMPLETED"
                   /\ tasks'[1].state = "RUNNING")

\* the task of the later event has finished and been removed while the
\* task of the earlier event is still running
C12_OutOfOrder ==
    /\ Len(tasks) = 2
    /\ Settled(2)
    /\ tasks[2].state = "COMPLETED"
    /\ tasks[1].state = "RUNNING"
    /\ active_tasks = {1}

\* the task of the earlier event has finished and been removed while the
\* task of the later event is still running
C12_InOrder ==
    /\ Len(tasks) = 2
    /\ Settled(1)
    /\ tasks[1].state = "COMPLETED"
    /\ tasks[2].state = "RUNNING"
    /\ active_tasks = {2}

\* C13: a task is tracked exactly while its done-callbacks have not run:
\* every created task whose callbacks have not yet run is in active_tasks
\* and is the value stored in handlers under its own id; every member of
\* active_tasks and every value of handlers is such a task, stored under
\* its own id; and the step that runs one task's callbacks leaves the
\* entries of every other task in place.
C13_TrackedWhileUnfinished ==
    /\ [](/\ \A t \in TaskSet :
               tasks[t].hook_runs = 0
                  => /\ t \in active_tasks
                     /\ tasks[t].task_id \in DOMAIN handlers
                     /\ handlers[tasks[t].task_id] = t
          /\ \A t \in active_tasks : t \in TaskSet /\ ~Settled(t)
          /\ \A k \in DOMAIN handlers :
                /\ handlers[k] \in TaskSet
                /\ ~Settled(handlers[k])
                /\ tasks[handlers[k]].task_id = k)
    /\ [][\A t \in TaskSet :
            HookStep(t)
               => /\ active_tasks' = active_tasks \ {t}
                  /\ \A k \in DOMAIN handlers :
                        handlers[k] # t
                           => k \in DOMAIN handlers'
                              /\ handlers'[k] = handlers[k]]_vars

\* C14: registration is atomic with respect to the task: the step that
\* creates a task leaves it not started, in active_tasks, stored in
\* handlers under its id and with both done-callbacks attached, so its
\* first step and its end come later; the callbacks stay attached; and an
\* entry is added to handlers or active_tasks only for a task created in
\* that same step.
C14_AtomicRegistration ==
    /\ [](\A t \in TaskSet :
            tasks[t].callbacks = BothCallbacks(tasks[t].task_id))
    /\ [][/\ \A t \in (Len(tasks) + 1)..Len(tasks') :
                /\ tasks'[t].state = "PENDING"
                /\ tasks'[t].pc = "start"
                /\ tasks'[t].callbacks = BothCallbacks(tasks'[t].task_id)
                /\ t \in active_tasks'
                /\ tasks'[t].task_id \in DOMAIN handlers'
                /\ handlers'[tasks'[t].task_id] = t
          /\ \A t \in TaskSet :
                (tasks[t].state = "PENDING" /\ tasks'[t].state # "PENDING")
                   => t \in active_tasks
          /\ \A t \in active_tasks' \ active_tasks :
                /\ t \notin TaskSet
                /\ tasks'[t].state = "PENDING"
          /\ \A k \in DOMAIN handlers' :
                (k \notin DOMAIN handlers \/ handlers'[k] # handlers[k])
                   => /\ handlers'[k] \notin TaskSet
                      /\ tasks'[handlers'[k]].state = "PENDING"
                      /\ tasks'[handlers'[k]].task_id = k]_vars

\* a task has returned and its callbacks are scheduled but have not run,
\* so it is still tracked, and a second task has just been registered
C14_Witness ==
    /\ Len(tasks) = 2
    /\ tasks[1].state = "COMPLETED"
    /\ tasks[1].scheduled = BothCallbacks(tasks[1].task_id)
    /\ tasks[2].state = "PENDING"
    /\ tasks[2].callbacks = BothCallbacks(tasks[2].task_id)
    /\ active_tasks = {1, 2}
    /\ handlers[tasks[2].task_id] = 2

\* the texts the patterns are tried on: the model's texts, each of them
\* followed by a newline, and texts with other white space and other
\* decimal digits
PatternProbes ==
    Texts \cup {Append(text, 10) : text \in Texts}
          \cup { <<47, 117, 110, 119, 105, 114, 101, 11, 50, 48, 50, 53,
                   45, 48, 52, 45, 49, 57>>,
                 <<47, 117, 110, 119, 105, 114, 101, 12288, 50, 48, 50,
                   53, 45, 48, 52, 45, 49, 57>>,
                 <<47, 117, 110, 119, 105, 114, 101, 32, 50, 48, 50, 53,
                   45, 48, 52, 45, 49, 1641>>,
                 <<47, 117, 110, 119, 105, 114, 101, 32, 9, 32, 50, 48,
                   50, 53, 45, 48, 52, 45, 49, 57, 10>>,
                 <<47, 117, 110, 119, 105, 114, 101, 32, 116, 111, 100,
                   97, 121>>,
                 <<47, 117, 110, 119, 105, 114, 101, 50, 48, 50, 53, 45,
                   48, 52, 45, 49, 57>>,
                 <<47, 97, 101, 110, 118>>,
                 <<104, 101, 108, 108, 111>> }

\* C15: no text matches two of the six patterns (a fact about the
\* patterns alone, evaluated once), and every inbound event spawns at
\* most one task: a step creates at most one task and no two tasks belong
\* to the same event.
C15_AtMostOneTask ==
    /\ \A text \in PatternProbes : Cardinality(Matching(text)) <= 1
    /\ [](\A t1, t2 \in TaskSet :
            tasks[t1].event = tasks[t2].event => t1 = t2)
    /\ [][Len(tasks') <= Len(tasks) + 1]_vars

\* /env and /.env have each been delivered and each has spawned one task
C15_Witness ==
    /\ Len(events) = 2
    /\ events[1].text = EnvLit
    /\ events[2].text = DotEnvLit
    /\ Len(tasks) = 2
    /\ tasks[1].event = 1
    /\ tasks[2].event = 2

\* C16: handlers and active_tasks change only in the step that delivers
\* an event, which only stores the new task (no member leaves active_tasks,
\* no key leaves handlers, and a key whose value changes holds the new
\* task), and in the step that runs a task's done-callbacks, which only
\* removes; every step of a task body (a step that moves a task's
\* position, raises in it or sends a reply or an edit) leaves both
\* unchanged.
C16_TrackerFrame ==
    [][/\ (handlers' # handlers \/ active_tasks' # active_tasks)
            => \/ /\ Len(events') = Len(events) + 1
                  /\ active_tasks \subseteq active_tasks'
                  /\ \A k \in DOMAIN handlers :
                        /\ k \in DOMAIN handlers'
                        /\ handlers'[k] \in {handlers[k], Len(tasks')}
               \/ /\ \E t \in TaskSet : HookStep(t)
                  /\ active_tasks' \subseteq active_tasks
                  /\ \A k \in DOMAIN handlers' :
                        k \in DOMAIN handlers /\ handlers'[k] = handlers[k]
       /\ (\/ replies' # replies
           \/ \E t \in TaskSet :
                 \/ tasks'[t].pc # tasks[t].pc
                 \/ tasks'[t].state # tasks[t].state
                 \/ tasks'[t].raised # tasks[t].raised)
            => UNCHANGED <<handlers, active_tasks>>]_vars

\* the error path of a task body has run to its end (the reply raised and
\* the failure reply was sent) and the task is still in both structures
C16_Witness ==
    /\ Len(tasks) = 2
    /\ tasks[1].cmd = "env"
    /\ tasks[1].raised
    /\ tasks[1].state = "COMPLETED"
    /\ tasks[1].scheduled # <<>>
    /\ replies[tasks[1].event] # <<>>
    /\ tasks[2].cmd = "unwire"
    /\ tasks[2].pc = "respond_sorry"
    /\ active_tasks = {1, 2}
    /\ Cardinality(DOMAIN handlers) = 2

\* the tasks spawned for the text /.env, and for the text /env
DotEnvTasks == {t \in TaskSet : TextOf(t) = DotEnvLit}

SlashEnvTasks == {t \in TaskSet : TextOf(t) = EnvLit}

\* what is sent for an /env whose reply call returns, for each state of
\* the ENVIRONMENT variable
EnvReplies ==
    { << [via |-> "reply", text |-> EnvResponse(env), target |-> 0] >> :
         env \in Environs }

\* C17: delivering /.env does what env_handler does for the same event:
\* the step creates exactly one task, which runs _process_env, is stored
\* under the id env_<event id>_<second> and in active_tasks, and has not
\* started when the handler returns; and the task sends what the task of
\* an /env sends: nothing but the environment reply when its reply call
\* returns.
C17_DotEnvIsEnv ==
    /\ [][(/\ Len(events') = Len(events) + 1
           /\ events'[Len(events')].text = DotEnvLit)
            => LET ev == [index |-> Len(events'),
                          id |-> events'[Len(events')].id,
                          text |-> DotEnvLit]
                   st == env_handler([tasks |-> tasks, handlers |-> handlers,
                                      active_tasks |-> active_tasks], ev,
                                     Second(now))
                   t == Len(tasks) + 1
               IN /\ tasks' = st.tasks
                  /\ handlers' = st.handlers
                  /\ active_tasks' = st.active_tasks
                  /\ Len(tasks') = t
                  /\ tasks'[t].cmd = "env"
                  /\ tasks'[t].state = "PENDING"
                  /\ tasks'[t].task_id =
                        EnvPrefix \o <<95>> \o Dec(ev.id) \o <<95>>
                                  \o Dec(Second(now))
                  /\ handlers'[tasks'[t].task_id] = t]_vars
    /\ [](\A t \in DotEnvTasks \cup SlashEnvTasks :
            /\ tasks[t].cmd = "env"
            /\ (tasks[t].state = "COMPLETED" /\ ~tasks[t].raised)
                  => SentFor(t) \in EnvReplies)

\* a /.env and an /env have both been answered, with the same reply
C17_Witness ==
    /\ Len(tasks) = 2
    /\ TextOf(1) = DotEnvLit
    /\ TextOf(2) = EnvLit
    /\ tasks[1].state = "COMPLETED" /\ ~tasks[1].raised
    /\ tasks[2].state = "COMPLETED" /\ ~tasks[2].raised
    /\ Len(SentFor(1)) = 1
    /\ SentFor(1) = SentFor(2)

\* the tasks of /unwire
UnwireTasks == {t \in TaskSet : tasks[t].cmd = "unwire"}

\* the fetch calls _process_unwire owes for the text: one without a date
\* when there is no argument, one with the date when the argument is a
\* calendar date, none otherwise
FetchesOwed(text) ==
    IF Len(Split(text)) = 1 THEN << FetchCall(FALSE, <<>>) >>
    ELSE IF StrptimeOk(Split(text)[2])
         THEN << FetchCall(TRUE, Split(text)[2]) >>
    ELSE <<>>

\* C18: each /unwire calls the fetch at most once, without a date when
\* the command has no argument and with the date exactly when the argument
\* is a calendar date.  When the fetch returned and no reply call raised,
\* the one reply sent is the fetched content.  When the fetch raised, no
\* reply other than "Sorry, I couldn't fetch the news. Please try again
\* later." is sent, at most one is sent, and one is sent if the task
\* returns.
C18_FetchAndReply ==
    \A t \in UnwireTasks :
        LET sent == SentFor(t) IN
        /\ tasks[t].fetches \in {<<>>, FetchesOwed(TextOf(t))}
        /\ tasks[t].state \in {"RUNNING", "COMPLETED", "FAILED"}
              => tasks[t].fetches = FetchesOwed(TextOf(t))
        /\ (tasks[t].state = "COMPLETED" /\ tasks[t].fetches # <<>>
               /\ ~tasks[t].raised)
              => sent = << [via |-> "respond", text |-> NewsText,
                            target |-> 0] >>
        /\ tasks[t].fetch_raised
              => /\ Len(sent) <= 1
                 /\ \A i \in 1..Len(sent) : sent[i].text = SorryText
                 /\ tasks[t].state = "COMPLETED" => Len(sent) = 1

\* the tasks of /ping
PingTasks == {t \in TaskSet : tasks[t].cmd = "ping"}

\* the text starts with a latency, in hundredths of a millisecond, that is
\* the interval from issued to acked (in microseconds) rounded to the
\* nearest hundredth, followed by "ms" and a newline
LatencyHead(text, issued, acked) ==
    \E q \in {(acked - issued) \div 10, (acked - issued) \div 10 + 1} :
        /\ 10 * q + 5 >= acked - issued
        /\ 10 * q <= (acked - issued) + 5
        /\ StartsWith(text, FloatText(q) \o <<109, 115, 10>>)

\* C19: what has been sent for a /ping is nothing, or the one reply
\* "Pinging...", or that reply followed by one edit of that same message
\* whose text starts with the latency; nothing is sent before the reply
\* call has been acknowledged, the edit is sent only by a task that holds
\* the acknowledged message, and the latency is the time from the step
\* that issues the reply call to the step that receives its
\* acknowledgment, unchanged by the time that passes afterwards.
C19_PingThenEdit ==
    /\ [](\A t \in PingTasks :
            LET sent == SentFor(t) IN
            /\ Len(sent) <= 2
            /\ Len(sent) >= 1
                  => /\ sent[1] = [via |-> "respond", text |-> PingingText,
                                   target |-> 0]
                     /\ tasks[t].message = 1
            /\ Len(sent) = 2
                  => /\ sent[2].via = "edit"
                     /\ sent[2].target = tasks[t].message
                     /\ sent[2].text = tasks[t].edit_text
                     /\ tasks[t].state = "COMPLETED"
            /\ tasks[t].pc \in {"start", "respond"} => sent = <<>>
            /\ tasks[t].pc = "edit" => Len(sent) = 1
            /\ tasks[t].state = "COMPLETED" => Len(sent) = 2)
    /\ [][\A t \in PingTasks :
            /\ (tasks[t].pc = "start" /\ tasks'[t].pc = "respond")
                  => tasks'[t].start_time = now
            /\ (tasks[t].pc = "respond" /\ tasks'[t].pc = "edit")
                  => /\ LatencyHead(tasks'[t].edit_text,
                                    tasks[t].start_time, now)
                     /\ tasks'[t].start_time = tasks[t].start_time
            /\ tasks[t].pc = "edit"
                  => /\ tasks'[t].edit_text = tasks[t].edit_text
                     /\ tasks'[t].message = tasks[t].message]_vars

\* a /ping was issued at the first second and acknowledged 1012346
\* microseconds later, and its message has been edited with a latency of
\* 1012.35ms
C19_Witness ==
    \E t \in PingTasks :
        /\ tasks[t].state = "COMPLETED"
        /\ tasks[t].start_time = FirstSecond * 1000000
        /\ Len(SentFor(t)) = 2
        /\ SentFor(t)[2].target = 1
        /\ StartsWith(SentFor(t)[2].text,
                      <<49, 48, 49, 50, 46, 51, 53, 109, 115, 10, 83, 101,
                        114, 118, 105, 99, 101, 58, 32, 65, 122, 117, 114,
                        101, 10, 76, 111, 99, 97, 116, 105, 111, 110, 58,
                        32>>)

=============================================================================
